---- MODULE Spec2Model ----
(***************************************************************************)
(* mediaconv: the command-line dispatcher of src/src/mediaconv/cli.py.     *)
(*                                                                         *)
(* The model covers the format registry (OUTPUT_EXTENSIONS, CONVERTERS),   *)
(* the path helpers (auto_generate_output_path, get_safe_output_path),     *)
(* convert_single_file and the four entry modes of cli(): directory scan   *)
(* (--batch), interactive prompt, input plus explicit output (exactly two  *)
(* positional arguments) and the input list.  The codecs are external:     *)
(* a converter either returns after writing its output file or raises.     *)
(*                                                                         *)
(* Paths follow pathlib's PurePosixPath: a path is its parent directory,   *)
(* the stem and the suffix pathlib parses from the final component.  The   *)
(* stem is kept as a base text plus the " (N)" counters appended to it, so *)
(* that f"{stem} ({counter}){suffix}" is a value the model can build.      *)
(***************************************************************************)
EXTENDS Integers, Sequences, FiniteSets, TLC

VARIABLES
    fs,            \* the paths that exist on the filesystem
    pc,            \* where the process is: start, batch_loop, list_loop, done, aborted, crashed; lib, returned;
                   \* race_start, checked
    input_files,   \* cli's positional arguments (after the interactive prompt, if any)
    batch,         \* TRUE when --batch <dir> was given
    files,         \* the sequence the running loop iterates over
    idx,           \* 1-based position of the loop's next file
    outcomes,      \* what was reported per handled file, in order
    notfound,      \* the paths reported as "File not found", in order
    summary,       \* the closing "Batch conversion complete" line, or NoSummary
    exit_code,     \* the status the process ends with
    call,          \* the last direct call of a registry or path helper, or NoCall
    prompted,      \* the path typed at the interactive prompt, or None
    fs0,           \* the filesystem as it was when the process started
    pending,       \* the job convert_single_file has found a safe output path for, not yet converted
    others         \* the files other processes created while this one ran

vars == <<fs, pc, input_files, batch, files, idx, outcomes, notfound, summary, exit_code, call,
         prompted, fs0, pending, others>>

----------------------------------------------------------------------------
(* Bounds of the model. *)

\* at most this many positional arguments in one invocation
MaxArgs == 3

\* the numbered names "a (1).png" .. "a (MaxCounter).png" may exist at startup
MaxCounter == 2

----------------------------------------------------------------------------
(* Paths. *)

Path(parent, base, ctrs, suffix) ==
    [parent |-> parent, base |-> base, ctrs |-> ctrs, suffix |-> suffix]

\* Python's None, returned by auto_generate_output_path
None == Path("None", "", <<>>, "")

\* str.lower() on the suffixes of the model
Lower(s) ==
    CASE s = ".WEBP" -> ".webp"
      [] s = ".AVIF" -> ".avif"
      [] s = ".SVG"  -> ".svg"
      [] s = ".MP3"  -> ".mp3"
      [] s = ".PNG"  -> ".png"
      [] s = ".WAV"  -> ".wav"
      [] OTHER       -> s

\* Path.with_suffix(ext): same parent and stem, the suffix replaced
with_suffix(p, ext) == [p EXCEPT !.suffix = ext]

\* parent / f"{stem} ({counter}){suffix}"
numbered(p, counter) == [p EXCEPT !.ctrs = Append(p.ctrs, counter)]

\* Path.exists()
exists(p, cur) == p \in cur

----------------------------------------------------------------------------
(* The format registry. *)

\* the keys of OUTPUT_EXTENSIONS in insertion order
supported_extensions == <<".webp", ".avif", ".svg", ".mp3", ".mp4", ".m4a">>

OUTPUT_EXTENSIONS ==
    (".webp" :> ".png") @@ (".avif" :> ".png") @@ (".svg" :> ".png") @@
    (".mp3" :> ".wav") @@ (".mp4" :> ".wav") @@ (".m4a" :> ".wav")

CONVERTERS ==
    (<<".webp", ".png">> :> "convert_webp_to_png") @@
    (<<".avif", ".png">> :> "convert_avif_to_png") @@
    (<<".svg", ".png">>  :> "convert_svg_to_png") @@
    (<<".mp3", ".wav">>  :> "convert_mp3_to_wav") @@
    (<<".mp4", ".wav">>  :> "convert_mp4_to_wav") @@
    (<<".m4a", ".wav">>  :> "convert_m4a_to_wav")

\* the input suffixes (lower-cased) each converter function accepts itself
accepted_suffixes(converter) ==
    CASE converter = "convert_webp_to_png" -> {".webp"}
      [] converter = "convert_avif_to_png" -> {".avif"}
      [] converter = "convert_svg_to_png"  -> {".svg", ".svgz"}
      [] converter = "convert_mp3_to_wav"  -> {".mp3"}
      [] converter = "convert_mp4_to_wav"  -> {".mp4", ".m4v"}
      [] converter = "convert_m4a_to_wav"  -> {".m4a"}

\* the test "converter_key not in CONVERTERS" of convert_single_file, negated
lookup_converter(input_ext, output_ext) == <<input_ext, output_ext>> \in DOMAIN CONVERTERS

----------------------------------------------------------------------------
(* The path helpers. *)

auto_generate_output_path_NoLower(input_path) ==
    IF input_path.suffix \notin DOMAIN OUTPUT_EXTENSIONS
    THEN None
    ELSE with_suffix(input_path, OUTPUT_EXTENSIONS[input_path.suffix])

auto_generate_output_path(input_path) ==
    LET input_ext == Lower(input_path.suffix) IN
    IF input_ext \notin DOMAIN OUTPUT_EXTENSIONS
    THEN None
    ELSE with_suffix(input_path, OUTPUT_EXTENSIONS[input_ext])

\* the while True loop of get_safe_output_path, entered with counter
RECURSIVE probe(_, _, _)
probe(output_path, counter, cur) ==
    LET new_path == numbered(output_path, counter) IN
    IF ~exists(new_path, cur) THEN new_path ELSE probe(output_path, counter + 1, cur)

get_safe_output_path_FirstProbe(output_path, cur) ==
    IF ~exists(output_path, cur) THEN output_path ELSE numbered(output_path, 1)

get_safe_output_path_Identity(output_path, cur) == output_path

get_safe_output_path(output_path, cur) ==
    IF ~exists(output_path, cur) THEN output_path ELSE probe(output_path, 1, cur)

----------------------------------------------------------------------------
(* The converter functions: external codecs behind a path check. *)

\* One call of a converter function: it raises when the input is missing or
\* its suffix is not one the function accepts; otherwise the codec either
\* writes the output file and returns, or raises, before or after the output
\* file came into being.
converter_results(converter, input_path, output_path, cur) ==
    IF ~exists(input_path, cur) \/ Lower(input_path.suffix) \notin accepted_suffixes(converter)
    THEN {[ok |-> FALSE, fs |-> cur]}
    ELSE {[ok |-> TRUE,  fs |-> cur \cup {output_path}],
          [ok |-> FALSE, fs |-> cur],
          [ok |-> FALSE, fs |-> cur \cup {output_path}]}

----------------------------------------------------------------------------
(* convert_single_file. *)

\* named: the two extensions the "Unsupported conversion" line names;
\* wrote: whether the output file is there when the converter call is over
Outcome(input_path, kind, requested, output, existed, converter, named, wrote) ==
    [input |-> input_path, kind |-> kind, requested |-> requested,
     output |-> output, existed |-> existed, converter |-> converter,
     named |-> named, wrote |-> wrote]

convert_single_file_ByInputOnly(input_path, output_path, cur) ==
    IF output_path = None
    THEN {[raised |-> TRUE, fs |-> cur,
           outcome |-> Outcome(input_path, "crash", None, None, FALSE, "none", <<>>, FALSE)]}
    ELSE
    LET input_ext  == Lower(input_path.suffix)
        output_ext == Lower(output_path.suffix)
    IN  IF input_ext \notin DOMAIN OUTPUT_EXTENSIONS
        THEN {[raised |-> FALSE, fs |-> cur,
               outcome |-> Outcome(input_path, "unsupported", output_path, None, FALSE, "none",
                                   <<input_ext, output_ext>>, FALSE)]}
        ELSE
        LET converter        == CONVERTERS[<<input_ext, OUTPUT_EXTENSIONS[input_ext]>>]
            safe_output_path == get_safe_output_path(output_path, cur)
        IN  {[raised |-> FALSE, fs |-> r.fs,
              outcome |-> Outcome(input_path, IF r.ok THEN "converted" ELSE "failed",
                                  output_path, safe_output_path,
                                  exists(safe_output_path, cur), converter,
                                  <<>>, exists(safe_output_path, r.fs))]
             : r \in converter_results(converter, input_path, safe_output_path, cur)}

\* The possible results of convert_single_file(input_path, output_path) on
\* filesystem cur: what it reported, the filesystem afterwards, and whether an
\* exception left the function (output_path.suffix on None).
convert_single_file(input_path, output_path, cur) ==
    IF output_path = None
    THEN {[raised |-> TRUE, fs |-> cur,
           outcome |-> Outcome(input_path, "crash", None, None, FALSE, "none", <<>>, FALSE)]}
    ELSE
    LET input_ext  == Lower(input_path.suffix)
        output_ext == Lower(output_path.suffix)
    IN  IF ~lookup_converter(input_ext, output_ext)
        THEN {[raised |-> FALSE, fs |-> cur,
               outcome |-> Outcome(input_path, "unsupported", output_path, None, FALSE, "none",
                                   <<input_ext, output_ext>>, FALSE)]}
        ELSE
        LET converter        == CONVERTERS[<<input_ext, output_ext>>]
            safe_output_path == get_safe_output_path(output_path, cur)
        IN  {[raised |-> FALSE, fs |-> r.fs,
              outcome |-> Outcome(input_path, IF r.ok THEN "converted" ELSE "failed",
                                  output_path, safe_output_path,
                                  exists(safe_output_path, cur), converter,
                                  <<>>, exists(safe_output_path, r.fs))]
             : r \in converter_results(converter, input_path, safe_output_path, cur)}

----------------------------------------------------------------------------
(* The files of the model. *)

\* the directory the positional paths live in, and the one --batch scans
batch_path == "d"

aWebp      == Path("d", "a", <<>>, ".webp")
aAvif      == Path("d", "a", <<>>, ".avif")
cTxt       == Path("d", "c", <<>>, ".txt")
aPng       == Path("d", "a", <<>>, ".png")
bUpperWebp == Path("d", "B", <<>>, ".WEBP")
dotWebp    == Path("d", ".webp", <<>>, "")       \* the hidden file ".webp": stem ".webp", no suffix
subWebp    == Path("d/sub", "e", <<>>, ".webp")  \* a file of a subdirectory

\* the paths a positional argument or the interactive prompt may name
ArgPaths == {aWebp, aAvif, cTxt, aPng}

\* the files that may exist when the process starts
InitFiles ==
    ArgPaths \cup {bUpperWebp, dotWebp, subWebp}
             \cup {numbered(aPng, k) : k \in 1..MaxCounter}

\* the argument tuples of the model: 1..MaxArgs positional paths
ArgTuples == UNION {[1..n -> ArgPaths] : n \in 1..MaxArgs}

NoSummary == [kind |-> "none", count |-> 0]

\* no job is between its existence check and its converter call
NoJob == [input |-> None, requested |-> None, safe |-> None, converter |-> "none"]

\* a direct call of a helper: its name, its arguments and what it returned
Call(fn, path, input_ext, output_ext, ret, found) ==
    [fn |-> fn, path |-> path, input_ext |-> input_ext, output_ext |-> output_ext,
     ret |-> ret, found |-> found]

NoCall == Call("none", None, "", "", None, FALSE)

----------------------------------------------------------------------------
(* cli(): directory scan, lines 107-133. *)

\* str.endswith on a final path component: fnmatch of "*<ext>" (case-sensitive,
\* PurePosixPath) against the name; "*" also matches the empty text
name_matches(p, ext) ==
    IF p.suffix = "" THEN p.ctrs = <<>> /\ p.base = ext ELSE p.suffix = ext

\* batch_path.glob(f"*{ext}"): the entries directly in the directory
glob(ext, cur) == {p \in cur : p.parent = batch_path /\ name_matches(p, ext)}

\* the orders in which scandir may hand out the entries of S
Orderings(S) ==
    {s \in [1..Cardinality(S) -> S] : \A i, j \in 1..Cardinality(S) : i # j => s[i] # s[j]}

\* files_to_convert after the loop over supported_extensions[k..]
RECURSIVE scan(_, _)
scan(k, cur) ==
    IF k > Len(supported_extensions) THEN {<<>>}
    ELSE {a \o b : a \in Orderings(glob(supported_extensions[k], cur)), b \in scan(k + 1, cur)}

CliBatch_NoEmptyCheck ==
    /\ pc = "start"
    /\ \E files_to_convert \in scan(1, fs) :
          /\ files' = files_to_convert
          /\ pc' = "batch_loop"
          /\ summary' = summary
    /\ batch' = TRUE
    /\ idx' = 1
    /\ UNCHANGED <<fs, input_files, outcomes, notfound, exit_code, call, prompted, fs0, pending, others>>

\* --batch <dir>: scan, then either "No supported files found" and return, or
\* enter the loop over files_to_convert
CliBatch ==
    /\ pc = "start"
    /\ \E files_to_convert \in scan(1, fs) :
          /\ files' = files_to_convert
          /\ IF files_to_convert = <<>>
             THEN /\ pc' = "done"
                  /\ summary' = [kind |-> "no_supported_files", count |-> 0]
             ELSE /\ pc' = "batch_loop"
                  /\ summary' = summary
    /\ batch' = TRUE
    /\ idx' = 1
    /\ UNCHANGED <<fs, input_files, outcomes, notfound, exit_code, call, prompted, fs0, pending, others>>

\* one iteration of "for input_path in files_to_convert" (lines 127-129)
BatchLoopStep ==
    /\ pc = "batch_loop"
    /\ idx <= Len(files)
    /\ LET input_path  == files[idx]
           output_path == auto_generate_output_path(input_path)
       IN  \E r \in convert_single_file(input_path, output_path, fs) :
              /\ fs' = r.fs
              /\ outcomes' = Append(outcomes, r.outcome)
              /\ IF r.raised
                 THEN pc' = "crashed" /\ exit_code' = 1 /\ idx' = idx
                 ELSE pc' = pc /\ exit_code' = exit_code /\ idx' = idx + 1
    /\ UNCHANGED <<input_files, batch, files, notfound, summary, call, prompted, fs0, pending, others>>

\* after the loop: "Batch conversion complete! Converted N file(s)" (lines 131-133)
BatchFinish ==
    /\ pc = "batch_loop"
    /\ idx > Len(files)
    /\ summary' = [kind |-> "complete_counted", count |-> Len(files)]
    /\ pc' = "done"
    /\ UNCHANGED <<fs, input_files, batch, files, idx, outcomes, notfound, exit_code, call, prompted, fs0, pending, others>>

----------------------------------------------------------------------------
(* cli(): the positional arguments, lines 135-188. *)

ListEntry_ReportAndContinue(args) ==
    /\ notfound' = SelectSeq(args, LAMBDA f : ~exists(f, fs))
    /\ pc' = "list_loop"
    /\ exit_code' = exit_code
    /\ files' = args
    /\ idx' = 1

\* lines 160-172: every missing input is listed and the run aborts (click.Abort
\* ends the process with status 1); otherwise the loop over args starts
ListEntry(args) ==
    LET missing_files == SelectSeq(args, LAMBDA f : ~exists(f, fs)) IN
    IF missing_files # <<>>
    THEN /\ notfound' = missing_files
         /\ pc' = "aborted"
         /\ exit_code' = 1
         /\ UNCHANGED <<files, idx>>
    ELSE /\ notfound' = notfound
         /\ pc' = "list_loop"
         /\ exit_code' = exit_code
         /\ files' = args
         /\ idx' = 1

CliInteractive_ReturnOnMissing ==
    /\ pc = "start"
    /\ \E input_file \in ArgPaths :
          /\ prompted' = input_file
          /\ IF ~exists(input_file, fs)
             THEN /\ notfound' = <<input_file>>
                  /\ pc' = "done"
                  /\ exit_code' = exit_code
                  /\ UNCHANGED <<input_files, files, idx>>
             ELSE /\ input_files' = <<input_file>>
                  /\ ListEntry(<<input_file>>)
    /\ UNCHANGED <<fs, batch, outcomes, summary, call, fs0, pending, others>>

\* no arguments: prompt for one path (lines 136-145), then go on as with that
\* one positional argument
CliInteractive ==
    /\ pc = "start"
    /\ \E input_file \in ArgPaths :
          /\ prompted' = input_file
          /\ IF ~exists(input_file, fs)
             THEN /\ notfound' = <<input_file>>
                  /\ pc' = "aborted"
                  /\ exit_code' = 1
                  /\ UNCHANGED <<input_files, files, idx>>
             ELSE /\ input_files' = <<input_file>>
                  /\ ListEntry(<<input_file>>)
    /\ UNCHANGED <<fs, batch, outcomes, summary, call, fs0, pending, others>>

\* exactly two positional arguments (lines 148-157): the first is the input,
\* the second the output
CliExplicitOutput ==
    /\ pc = "start"
    /\ \E args \in ArgTuples :
          /\ Len(args) = 2
          /\ input_files' = args
          /\ LET input_path  == args[1]
                 output_path == args[2]
             IN  IF ~exists(input_path, fs)
                 THEN /\ notfound' = <<input_path>>
                      /\ pc' = "aborted"
                      /\ exit_code' = 1
                      /\ UNCHANGED <<fs, outcomes>>
                 ELSE \E r \in convert_single_file(input_path, output_path, fs) :
                         /\ fs' = r.fs
                         /\ outcomes' = <<r.outcome>>
                         /\ pc' = "done"
                         /\ UNCHANGED <<notfound, exit_code>>
    /\ UNCHANGED <<batch, files, idx, summary, call, prompted, fs0, pending, others>>

\* one positional argument, or three and more (lines 160-172)
CliList ==
    /\ pc = "start"
    /\ \E args \in ArgTuples :
          /\ Len(args) # 2
          /\ input_files' = args
          /\ ListEntry(args)
    /\ UNCHANGED <<fs, batch, outcomes, summary, call, prompted, fs0, pending, others>>

\* one iteration of "for input_file in input_files" (lines 174-182)
ListLoopStep ==
    /\ pc = "list_loop"
    /\ idx <= Len(files)
    /\ LET input_path  == files[idx]
           output_path == auto_generate_output_path(input_path)
       IN  IF output_path = None
           THEN /\ outcomes' = Append(outcomes,
                                      Outcome(input_path, "skipped", None, None, FALSE, "none",
                                              <<>>, FALSE))
                /\ fs' = fs
           ELSE \E r \in convert_single_file(input_path, output_path, fs) :
                   /\ fs' = r.fs
                   /\ outcomes' = Append(outcomes, r.outcome)
    /\ idx' = idx + 1
    /\ UNCHANGED <<pc, input_files, batch, files, notfound, summary, exit_code, call, prompted, fs0, pending, others>>

\* after the loop (lines 184-188)
ListFinish ==
    /\ pc = "list_loop"
    /\ idx > Len(files)
    /\ summary' = IF Len(input_files) > 1
                  THEN [kind |-> "complete", count |-> 0]
                  ELSE summary
    /\ pc' = "done"
    /\ UNCHANGED <<fs, input_files, batch, files, idx, outcomes, notfound, exit_code, call, prompted, fs0, pending, others>>

----------------------------------------------------------------------------
(* The command-line process. *)

Init ==
    /\ fs \in SUBSET InitFiles
    /\ pc = "start"
    /\ input_files = <<>>
    /\ batch = FALSE
    /\ files = <<>>
    /\ idx = 1
    /\ outcomes = <<>>
    /\ notfound = <<>>
    /\ summary = NoSummary
    /\ exit_code = 0
    /\ call = NoCall
    /\ prompted = None
    /\ fs0 = fs
    /\ pending = NoJob
    /\ others = {}

Next ==
    \/ CliBatch
    \/ BatchLoopStep
    \/ BatchFinish
    \/ CliInteractive
    \/ CliExplicitOutput
    \/ CliList
    \/ ListLoopStep
    \/ ListFinish

Spec == Init /\ [][Next]_vars

----------------------------------------------------------------------------
(* The registry and the path helpers called on their own, on any filesystem *)
(* and any argument of the model: one call per run.                        *)

\* the suffixes a path of the model may carry ("" is a name without suffix)
Suffixes ==
    {".webp", ".avif", ".svg", ".svgz", ".mp3", ".mp4", ".m4v", ".m4a",
     ".png", ".wav", ".txt", ".WEBP", ".AVIF", ".PNG", ""}

\* the arguments auto_generate_output_path is called with
DerivePaths ==
    {Path(parent, "b", <<>>, suffix) : parent \in {"a", "d"}, suffix \in Suffixes}
        \cup {dotWebp, numbered(aWebp, 1)}

\* the arguments get_safe_output_path is called with
SafePaths ==
    {aPng, numbered(aPng, 1), Path("d", "a", <<>>, ".wav"), aWebp, dotWebp}

\* the key convert_single_file builds from two suffixes, looked up in CONVERTERS
LookupCall ==
    /\ pc = "lib"
    /\ \E i \in Suffixes, o \in Suffixes :
          call' = Call("lookup_converter", None, i, o, None,
                       lookup_converter(Lower(i), Lower(o)))
    /\ pc' = "returned"
    /\ UNCHANGED <<fs, input_files, batch, files, idx, outcomes, notfound, summary, exit_code, prompted, fs0, pending, others>>

DeriveCall ==
    /\ pc = "lib"
    /\ \E p \in DerivePaths :
          call' = Call("auto_generate_output_path", p, "", "",
                       auto_generate_output_path(p), FALSE)
    /\ pc' = "returned"
    /\ UNCHANGED <<fs, input_files, batch, files, idx, outcomes, notfound, summary, exit_code, prompted, fs0, pending, others>>

SafeCall ==
    /\ pc = "lib"
    /\ \E p \in SafePaths :
          call' = Call("get_safe_output_path", p, "", "",
                       get_safe_output_path(p, fs), FALSE)
    /\ pc' = "returned"
    /\ UNCHANGED <<fs, input_files, batch, files, idx, outcomes, notfound, summary, exit_code, prompted, fs0, pending, others>>

InitLib ==
    /\ fs \in SUBSET InitFiles
    /\ pc = "lib"
    /\ input_files = <<>>
    /\ batch = FALSE
    /\ files = <<>>
    /\ idx = 1
    /\ outcomes = <<>>
    /\ notfound = <<>>
    /\ summary = NoSummary
    /\ exit_code = 0
    /\ call = NoCall
    /\ prompted = None
    /\ fs0 = fs
    /\ pending = NoJob
    /\ others = {}

NextLib ==
    \/ LookupCall
    \/ DeriveCall
    \/ SafeCall

SpecLib == InitLib /\ [][NextLib]_vars

----------------------------------------------------------------------------
(* convert_single_file next to other processes: the existence check of     *)
(* get_safe_output_path (line 207) and the converter's write (line 213)    *)
(* are two steps, and another process, such as a second run of the tool,   *)
(* may create files before, between and after them.                        *)

\* other processes create at most this many files during the run
MaxOthers == 2

\* the names another process may create: the output names of this run
OtherPaths == {aPng} \cup {numbered(aPng, k) : k \in 1..(MaxCounter + 1)}

\* convert_single_file up to its existence check (lines 193-212), for an
\* existing input and its derived or an explicit output path
ConvertCheck ==
    /\ pc = "race_start"
    /\ \E input_path \in ArgPaths \cap fs :
       \E output_path \in (ArgPaths \cup {auto_generate_output_path(input_path)}) \ {None} :
          LET input_ext  == Lower(input_path.suffix)
              output_ext == Lower(output_path.suffix)
          IN  /\ input_files' = <<input_path, output_path>>
              /\ IF ~lookup_converter(input_ext, output_ext)
                 THEN /\ outcomes' = <<Outcome(input_path, "unsupported", output_path, None,
                                               FALSE, "none", <<input_ext, output_ext>>, FALSE)>>
                      /\ pending' = pending
                      /\ pc' = "done"
                 ELSE /\ pending' = [input |-> input_path, requested |-> output_path,
                                     safe |-> get_safe_output_path(output_path, fs),
                                     converter |-> CONVERTERS[<<input_ext, output_ext>>]]
                      /\ outcomes' = outcomes
                      /\ pc' = "checked"
    /\ UNCHANGED <<fs, batch, files, idx, notfound, summary, exit_code, call, prompted, fs0, others>>

\* the converter call and its report (lines 213-217)
ConvertWrite ==
    /\ pc = "checked"
    /\ \E r \in converter_results(pending.converter, pending.input, pending.safe, fs) :
          /\ fs' = r.fs
          /\ outcomes' = <<Outcome(pending.input, IF r.ok THEN "converted" ELSE "failed",
                                   pending.requested, pending.safe,
                                   exists(pending.safe, fs), pending.converter,
                                   <<>>, exists(pending.safe, r.fs))>>
    /\ pending' = NoJob
    /\ pc' = "done"
    /\ UNCHANGED <<input_files, batch, files, idx, notfound, summary, exit_code, call, prompted,
                   fs0, others>>

\* another process creates a file while this one has not yet called its converter
OtherProcessWrites ==
    /\ pc \in {"race_start", "checked"}
    /\ Cardinality(others) < MaxOthers
    /\ \E p \in OtherPaths \ fs :
          /\ fs' = fs \cup {p}
          /\ others' = others \cup {p}
    /\ UNCHANGED <<pc, input_files, batch, files, idx, outcomes, notfound, summary, exit_code,
                   call, prompted, fs0, pending>>

InitRace ==
    /\ fs \in SUBSET InitFiles
    /\ pc = "race_start"
    /\ input_files = <<>>
    /\ batch = FALSE
    /\ files = <<>>
    /\ idx = 1
    /\ outcomes = <<>>
    /\ notfound = <<>>
    /\ summary = NoSummary
    /\ exit_code = 0
    /\ call = NoCall
    /\ prompted = None
    /\ fs0 = fs
    /\ pending = NoJob
    /\ others = {}

NextRace ==
    \/ ConvertCheck
    \/ ConvertWrite
    \/ OtherProcessWrites

SpecRace == InitRace /\ [][NextRace]_vars

----------------------------------------------------------------------------
(* Vocabulary of the properties. *)

Range(s) == {s[k] : k \in DOMAIN s}

\* the process has ended: returned from cli(), aborted by click.Abort, or died
\* of an uncaught exception
Terminated == pc \in {"done", "aborted", "crashed"}

\* a converter function was called for the k-th handled file
ConverterInvoked(k) == outcomes[k].converter # "none"

\* the lower-cased suffix of p is a key of OUTPUT_EXTENSIONS
RegisteredInput(p) == Lower(p.suffix) \in DOMAIN OUTPUT_EXTENSIONS

\* what a multi-file run enumerates: the scanned files, or the positional paths
Enumerated == IF batch THEN files ELSE input_files

\* the input files of an invocation as cli() reads the positional paths: of
\* exactly two paths the second is the output
InputsAsRead == IF Len(input_files) = 2 THEN <<input_files[1]>> ELSE input_files

----------------------------------------------------------------------------
(* C1: failure isolation.  When a multi-file run (a directory scan, or two  *)
(* or more positional paths that all exist) has ended, every enumerated    *)
(* file was handled exactly once and in enumeration order: a file with an  *)
(* unregistered extension was skipped without a converter call, and every  *)
(* file with a registered extension had its converter invoked, whatever    *)
(* happened to the files before it.                                        *)
C1_FailureIsolation ==
    (/\ Terminated
     /\ batch \/ Len(input_files) >= 2
     /\ \A k \in DOMAIN input_files : input_files[k] \in fs0)
    => /\ Len(outcomes) = Len(Enumerated)
       /\ \A k \in DOMAIN outcomes :
             /\ outcomes[k].input = Enumerated[k]
             /\ IF RegisteredInput(Enumerated[k])
                THEN ConverterInvoked(k)
                ELSE outcomes[k].kind = "skipped" /\ ~ConverterInvoked(k)

----------------------------------------------------------------------------
(* C2: no silent overwrite.  Whenever convert_single_file invoked a        *)
(* converter, the output path it passed did not exist on the filesystem at *)
(* that moment.                                                            *)
C2_NoSilentOverwrite ==
    \A k \in DOMAIN outcomes : ConverterInvoked(k) => ~outcomes[k].existed

\* a converter was invoked for an output whose requested name was taken, and
\* wrote the renamed file
C2_Witness ==
    \E k \in DOMAIN outcomes :
        /\ ConverterInvoked(k)
        /\ outcomes[k].kind = "converted"
        /\ outcomes[k].requested \in fs0
        /\ outcomes[k].output # outcomes[k].requested

----------------------------------------------------------------------------
(* C3: get_safe_output_path(p) returns p when p does not exist; when p     *)
(* exists it returns "<stem> (N)<ext>" in the same directory for the       *)
(* smallest N >= 1 whose path does not exist: with a.png and "a (1).png"   *)
(* existing and "a (2).png" not, the answer for a.png is "a (2).png".  The *)
(* call leaves the filesystem as it was.                                   *)
C3_SafeOutputPath ==
    call.fn = "get_safe_output_path" =>
        LET p == call.path
            r == call.ret
        IN  /\ p \notin fs0 => r = p
            /\ p \in fs0 =>
                  \E N \in 1..(Cardinality(fs0) + 1) :
                      /\ r = [parent |-> p.parent, base |-> p.base,
                              ctrs |-> p.ctrs \o <<N>>, suffix |-> p.suffix]
                      /\ r \notin fs0
                      /\ \A k \in 1..(N - 1) :
                            [parent |-> p.parent, base |-> p.base,
                             ctrs |-> p.ctrs \o <<k>>, suffix |-> p.suffix] \in fs0
            /\ (/\ p = Path("d", "a", <<>>, ".png")
                /\ {Path("d", "a", <<>>, ".png"), Path("d", "a", <<1>>, ".png")} \subseteq fs0
                /\ Path("d", "a", <<2>>, ".png") \notin fs0)
               => r = Path("d", "a", <<2>>, ".png")
            /\ fs = fs0

\* the example: a.png and "a (1).png" exist, the call answers "a (2).png"
C3_Witness ==
    /\ call.fn = "get_safe_output_path"
    /\ call.path = Path("d", "a", <<>>, ".png")
    /\ {Path("d", "a", <<>>, ".png"), Path("d", "a", <<1>>, ".png")} \subseteq fs0
    /\ call.ret = Path("d", "a", <<2>>, ".png")

----------------------------------------------------------------------------
(* C4: exit status.  A process that ends with status 0 has converted every *)
(* input file of the invocation successfully, or was a directory scan that *)
(* found nothing to do; a failed or skipped file makes the status non-zero. *)
C4_ExitStatus ==
    (Terminated /\ exit_code = 0) =>
        \/ batch /\ files = <<>>
        \/ /\ Len(outcomes) = Len(IF batch THEN files ELSE InputsAsRead)
           /\ \A k \in DOMAIN outcomes : outcomes[k].kind = "converted"

----------------------------------------------------------------------------
(* C5: a missing input file is terminal for its own job only.  As claimed: *)
(* when an invocation with several positional paths has ended and some     *)
(* input did not exist, every missing input was reported as not found and  *)
(* every other input that exists and has a registered extension had its    *)
(* converter invoked.                                                      *)
C5_MissingInputIsolated ==
    (/\ Terminated
     /\ ~batch
     /\ prompted = None
     /\ Len(input_files) >= 2
     /\ \E k \in DOMAIN InputsAsRead : InputsAsRead[k] \notin fs0)
    => \A k \in DOMAIN InputsAsRead :
          IF InputsAsRead[k] \notin fs0
          THEN InputsAsRead[k] \in Range(notfound)
          ELSE RegisteredInput(InputsAsRead[k]) =>
                  \E j \in DOMAIN outcomes :
                      outcomes[j].input = InputsAsRead[k] /\ ConverterInvoked(j)

(* C5, as amended: a missing input aborts the whole invocation.  Once cli() *)
(* has read positional paths of which some input does not exist, the       *)
(* process is aborted with a non-zero status, exactly the missing inputs   *)
(* are reported as not found, in argument order, no converter was invoked  *)
(* for any input and the filesystem is untouched.                          *)
C5_MissingInputAborts ==
    (/\ pc # "start"
     /\ ~batch
     /\ prompted = None
     /\ \E k \in DOMAIN InputsAsRead : InputsAsRead[k] \notin fs0)
    => /\ pc = "aborted"
       /\ exit_code # 0
       /\ notfound = SelectSeq(InputsAsRead, LAMBDA f : f \notin fs0)
       /\ outcomes = <<>>
       /\ fs = fs0

\* three positional paths, the first an existing file with a registered
\* extension, another one missing: the run is aborted
C5_Witness ==
    /\ pc = "aborted"
    /\ prompted = None
    /\ Len(input_files) = 3
    /\ input_files[1] \in fs0
    /\ RegisteredInput(input_files[1])
    /\ \E k \in 2..3 : input_files[k] \notin fs0

----------------------------------------------------------------------------
(* C6: several positional paths are several inputs.  When an invocation    *)
(* with N >= 2 distinct positional paths, all existing, has returned, each *)
(* path was handled as an input, in order, and each one with a registered  *)
(* extension was converted towards its own derived default output path;    *)
(* for N = 2 as for N > 2.                                                 *)
C6_EachPathIsAnInput ==
    (/\ pc = "done"
     /\ ~batch
     /\ prompted = None
     /\ Len(input_files) >= 2
     /\ \A k \in DOMAIN input_files : input_files[k] \in fs0
     /\ \A j, k \in DOMAIN input_files : j # k => input_files[j] # input_files[k])
    => /\ Len(outcomes) = Len(input_files)
       /\ \A k \in DOMAIN outcomes :
             /\ outcomes[k].input = input_files[k]
             /\ RegisteredInput(input_files[k]) =>
                   /\ ConverterInvoked(k)
                   /\ outcomes[k].requested.parent = input_files[k].parent
                   /\ outcomes[k].requested.base = input_files[k].base
                   /\ outcomes[k].requested.suffix \in {".png", ".wav"}

----------------------------------------------------------------------------
(* C7: registry contents.  The lookup of a lower-cased (input extension,   *)
(* output extension) pair succeeds for exactly the pairs .webp->.png,      *)
(* .avif->.png, .svg->.png, .svgz->.png, .mp3->.wav, .mp4->.wav,           *)
(* .m4v->.wav and .m4a->.wav, and reports "unsupported" for any other.     *)
C7_RegistryContents ==
    call.fn = "lookup_converter" =>
        (call.found <=>
            <<Lower(call.input_ext), Lower(call.output_ext)>> \in
                {<<".webp", ".png">>, <<".avif", ".png">>, <<".svg", ".png">>,
                 <<".svgz", ".png">>, <<".mp3", ".wav">>, <<".mp4", ".wav">>,
                 <<".m4v", ".wav">>, <<".m4a", ".wav">>})

----------------------------------------------------------------------------
(* C8: the job set of a directory scan.  For --batch <dir> the scanned     *)
(* files are exactly the files located directly in <dir> whose lower-cased *)
(* extension is a registered input extension, each of them once.  Stated   *)
(* for the directories all of whose entries carry a suffix.                *)
C8_ScanJobSet ==
    (batch /\ \A p \in fs0 : p.suffix # "") =>
        /\ Range(files) = {p \in fs0 : p.parent = batch_path /\ RegisteredInput(p)}
        /\ \A j, k \in DOMAIN files : j # k => files[j] # files[k]

----------------------------------------------------------------------------
(* C9: the default output.  auto_generate_output_path(input) returns, for  *)
(* an input whose lower-cased extension is registered, the path with the   *)
(* same directory and stem and the default output extension (.png for the  *)
(* image inputs, .wav for the audio inputs; a/b.webp -> a/b.png), and None *)
(* for any other input.  The filesystem plays no part and is not changed.  *)
C9_DefaultOutput ==
    call.fn = "auto_generate_output_path" =>
        LET p  == call.path
            r  == call.ret
            e  == Lower(p.suffix)
        IN  /\ e \in {".webp", ".avif", ".svg"} =>
                  r = [parent |-> p.parent, base |-> p.base, ctrs |-> p.ctrs, suffix |-> ".png"]
            /\ e \in {".mp3", ".mp4", ".m4a"} =>
                  r = [parent |-> p.parent, base |-> p.base, ctrs |-> p.ctrs, suffix |-> ".wav"]
            /\ ~RegisteredInput(p) => r = None
            /\ p = Path("a", "b", <<>>, ".webp") => r = Path("a", "b", <<>>, ".png")
            /\ fs = fs0

\* the example: a/b.webp gives a/b.png
C9_Witness ==
    /\ call.fn = "auto_generate_output_path"
    /\ call.path = Path("a", "b", <<>>, ".webp")
    /\ call.ret = Path("a", "b", <<>>, ".png")

----------------------------------------------------------------------------
(* C10: interactive mode with a prompted path that does not exist reports  *)
(* the file as not found and ends with a non-zero exit status, without     *)
(* invoking a converter and without creating a file.                       *)
C10_InteractiveMissing ==
    (prompted # None /\ prompted \notin fs0) =>
        /\ pc = "aborted"
        /\ exit_code # 0
        /\ notfound = <<prompted>>
        /\ outcomes = <<>>
        /\ fs = fs0

\* the prompt was answered with a path that does not exist
C10_Witness ==
    /\ prompted # None
    /\ prompted \notin fs0
    /\ Terminated

----------------------------------------------------------------------------
(* C11: nothing to do.  A directory scan that finds no supported file ends *)
(* with its own "no supported files" outcome and not with an error: no     *)
(* converter is invoked, no "batch complete" line is echoed, the           *)
(* filesystem is unchanged and the exit status is 0.                       *)
C11_NothingToDo ==
    (batch /\ files = <<>>) =>
        /\ pc = "done"
        /\ summary = [kind |-> "no_supported_files", count |-> 0]
        /\ outcomes = <<>>
        /\ notfound = <<>>
        /\ fs = fs0
        /\ exit_code = 0

\* a scan of a directory that holds files, none of them supported, has ended
C11_Witness ==
    /\ batch
    /\ files = <<>>
    /\ pc = "done"
    /\ Path("d", "c", <<>>, ".txt") \in fs0

----------------------------------------------------------------------------
(* C12: unsupported conversion.  When convert_single_file is given an      *)
(* (input, output) pair whose lower-cased extensions are not a key of the  *)
(* converter registry, it reports an error naming both extensions, invokes *)
(* no converter, computes no safe output path and leaves the filesystem    *)
(* as it was.                                                              *)
C12_UnsupportedConversion ==
    /\ \A k \in DOMAIN outcomes :
          LET o == outcomes[k] IN
          (/\ o.requested # None
           /\ <<Lower(o.input.suffix), Lower(o.requested.suffix)>> \notin DOMAIN CONVERTERS)
          => /\ o.kind = "unsupported"
             /\ o.named = <<Lower(o.input.suffix), Lower(o.requested.suffix)>>
             /\ o.converter = "none"
             /\ o.output = None
             /\ ~o.wrote
    /\ (/\ pc = "done"
        /\ Len(input_files) = 2
        /\ <<Lower(input_files[1].suffix), Lower(input_files[2].suffix)>> \notin DOMAIN CONVERTERS)
       => fs = fs0

\* an existing a.webp was given with an output of unregistered extension
C12_Witness ==
    /\ pc = "done"
    /\ Len(input_files) = 2
    /\ input_files[1] = Path("d", "a", <<>>, ".webp")
    /\ input_files[2].suffix = ".avif"
    /\ Len(outcomes) = 1
    /\ outcomes[1].kind = "unsupported"
    /\ outcomes[1].named = <<".webp", ".avif">>

----------------------------------------------------------------------------
(* C13: batch summary counts.  Once the closing line of a directory scan   *)
(* is echoed, every scanned file has its outcome, in scan order, and the   *)
(* number of files the line reports as converted is the number of jobs     *)
(* whose converter returned without error: a failed or skipped job is not  *)
(* counted as converted.                                                   *)
C13_SummaryCounts ==
    summary.kind = "complete_counted" =>
        /\ Len(outcomes) = Len(files)
        /\ \A k \in DOMAIN outcomes : outcomes[k].input = files[k]
        /\ summary.count = Cardinality({k \in DOMAIN outcomes : outcomes[k].kind = "converted"})

----------------------------------------------------------------------------
(* C14: cross-job output uniqueness.  Within one sequential run, in which  *)
(* every successful converter call leaves its output file behind, the      *)
(* output paths of the successful jobs are pairwise distinct and none is a *)
(* file that existed before the run, also when several inputs derive the   *)
(* same default output (a.webp and a.avif both derive a.png: the second    *)
(* job writes "a (1).png").  A job whose converter failed without leaving  *)
(* a file keeps its name free: the next job asking for the same output     *)
(* gets that very name.                                                    *)
C14_OutputsUnique ==
    /\ \A k \in DOMAIN outcomes :
          outcomes[k].kind = "converted" =>
              /\ outcomes[k].wrote
              /\ outcomes[k].output \notin fs0
              /\ \A j \in DOMAIN outcomes :
                    (j # k /\ outcomes[j].kind = "converted")
                    => outcomes[j].output # outcomes[k].output
    /\ \A k \in DOMAIN outcomes :
          (/\ k + 1 \in DOMAIN outcomes
           /\ outcomes[k].kind = "failed"
           /\ ~outcomes[k].wrote
           /\ ConverterInvoked(k + 1)
           /\ outcomes[k + 1].requested = outcomes[k].requested)
          => outcomes[k + 1].output = outcomes[k].output

\* a.webp and a.avif were both converted in one run: a.png, then "a (1).png"
C14_Witness ==
    \E j, k \in DOMAIN outcomes :
        /\ j < k
        /\ outcomes[j].input = Path("d", "a", <<>>, ".webp")
        /\ outcomes[k].input = Path("d", "a", <<>>, ".avif")
        /\ outcomes[j].kind = "converted"
        /\ outcomes[k].kind = "converted"
        /\ outcomes[j].output = Path("d", "a", <<>>, ".png")
        /\ outcomes[k].output = Path("d", "a", <<1>>, ".png")

----------------------------------------------------------------------------
(* C15: deconfliction is check-then-act.  Next to another process that may *)
(* create files between the existence check and the converter's write, a   *)
(* converter can be invoked with an output path that already exists; this  *)
(* happens only for a path another process created after the check, never *)
(* for a file that was there when the run started.                         *)
C15_OverwriteOnlyByRace ==
    \A k \in DOMAIN outcomes :
        (ConverterInvoked(k) /\ outcomes[k].existed)
        => /\ outcomes[k].output \in others
           /\ outcomes[k].output \notin fs0

\* the converter was invoked with, and wrote to, a path that existed by then
C15_Witness ==
    \E k \in DOMAIN outcomes :
        /\ ConverterInvoked(k)
        /\ outcomes[k].existed
        /\ outcomes[k].kind = "converted"
        /\ outcomes[k].output \in others

====
